---- MODULE Spec2Model ----
(***************************************************************************)
(* Model of src/src/main.rs: the MCU1 -> MCU2 communication protocol.      *)
(*                                                                         *)
(*   Message               id: u16, payload: Vec<u8>, checksum: u8         *)
(*   CircularBuffer        buffer: VecDeque<Message>, capacity,            *)
(*                         write_count, read_count                         *)
(*   CommunicationProtocol shared_buffer: CircularBuffer, next_message: u16*)
(*                                                                         *)
(* The program state is the pair shared_buffer / next_message.  The other  *)
(* variables observe the calls: pre (the program state before the last     *)
(* call), ret (the last call and what it returned), log (the calls so far  *)
(* that the specification at hand records) and n_send (the number of       *)
(* mcu1_send calls so far).                                                *)
(*                                                                         *)
(* write_count and read_count are usize: they cannot overflow within the   *)
(* bounds below, so they are plain naturals.  next_message is u16 and      *)
(* wraps (wrapping_add).                                                   *)
(***************************************************************************)
EXTENDS Integers, Sequences, FiniteSets

VARIABLES shared_buffer, next_message, pre, ret, log, n_send,
          m_id, m_payload, message, verdict

protoVars == <<shared_buffer, next_message>>
obsVars   == <<pre, ret, log, n_send>>
msgVars   == <<m_id, m_payload, message, verdict>>
vars      == <<shared_buffer, next_message, pre, ret, log, n_send,
               m_id, m_payload, message, verdict>>

----------------------------------------------------------------------------
(* Bounds of the model *)

\* capacities 0..MaxCap are tried by Spec
MaxCap == 2
\* number of calls in a run of Spec
MaxOps == 7
\* longest payload handed to Message::new in SpecMsg
MaxLen == 3
\* number of mcu1_send calls in a run of SpecWrap (past the u16 wrap)
WrapSends == 65538
\* capacities 0..WrapCap are tried by SpecWrap
WrapCap == 2
\* mcu2_receive is called in SpecWrap while read_count < WrapReads
WrapReads == 1
\* number of calls in a run of SpecMain
MaxMainOps == 8
\* number of mcu1_send calls in a run of SpecDrain
MaxFill == 4

(* Program constants *)

\* u16: ids are taken modulo 2^16
U16 == 65536
\* u8 has 8 bits
U8Bits == 8

\* the capacity main() builds its protocol with
MainCapacity == 5

\* the payloads main() sends, in its order
MainPayloads == << <<1, 2, 3>>, <<4, 5>>, <<6>> >>

\* the payload handed to mcu1_send in SpecDrain: the last of main()'s
DrainPayloads == { <<6>> }

\* payloads handed to mcu1_send: the empty one and two of main()'s
SendPayloads == { <<>>, <<4, 5>>, <<6>> }
\* bytes of the payloads handed to Message::new in SpecMsg
ByteVals == {0, 1, 6, 255}
\* ids handed to Message::new in SpecMsg
IdVals == {0, 1, 65535}

\* Option<T>: None is the empty sequence, Some(x) the sequence of x alone
None == << >>

Some(x) == << x >>

----------------------------------------------------------------------------
(* Message *)

\* a ^ b on n-bit values
RECURSIVE xor(_, _, _)
xor(a, b, n) ==
    IF n = 0 THEN 0
    ELSE (((a % 2) + (b % 2)) % 2) + 2 * xor(a \div 2, b \div 2, n - 1)

\* payload.iter().fold(init, |acc, byte| acc ^ byte)
RECURSIVE fold_xor(_, _)
fold_xor(acc, payload) ==
    IF payload = <<>> THEN acc
    ELSE fold_xor(xor(acc, Head(payload), U8Bits), Tail(payload))

\* a + b on n-bit values, wrapping
wrapping_sum(a, b, n) == (a + b) % (2 ^ n)

\* a checksum that adds the bytes (wrapping) where the code XORs them
RECURSIVE fold_sum(_, _)
fold_sum(acc, payload) ==
    IF payload = <<>> THEN acc
    ELSE fold_sum(wrapping_sum(acc, Head(payload), U8Bits), Tail(payload))

calculate_checksum_sum(payload) == fold_sum(0, payload)

\* a | b on n-bit values
RECURSIVE bit_or(_, _, _)
bit_or(a, b, n) ==
    IF n = 0 THEN 0
    ELSE (IF (a % 2) + (b % 2) >= 1 THEN 1 ELSE 0)
            + 2 * bit_or(a \div 2, b \div 2, n - 1)

\* a checksum that ORs the bytes where the code XORs them
RECURSIVE fold_or(_, _)
fold_or(acc, payload) ==
    IF payload = <<>> THEN acc
    ELSE fold_or(bit_or(acc, Head(payload), U8Bits), Tail(payload))

calculate_checksum_or(payload) == fold_or(0, payload)

calculate_checksum(payload) == fold_xor(0, payload)

\* a Message::new that leaves the checksum at 0
Message_new_unsummed(id, payload) ==
    [id |-> id, payload |-> payload, checksum |-> 0]

Message_new(id, payload) ==
    [id |-> id, payload |-> payload, checksum |-> calculate_checksum(payload)]

\* a verify_checksum that seeds the fold with the stored checksum
verify_checksum_seeded(m) == m.checksum = fold_xor(m.checksum, m.payload)

verify_checksum(m) == m.checksum = calculate_checksum(m.payload)

----------------------------------------------------------------------------
(* CircularBuffer *)

CircularBuffer_new(capacity) ==
    [buffer |-> <<>>, capacity |-> capacity, write_count |-> 0, read_count |-> 0]

\* VecDeque::pop_back, which a LIFO slip would call
pop_back(q) ==
    IF q = <<>> THEN [q |-> q, item |-> None]
    ELSE [q |-> SubSeq(q, 1, Len(q) - 1), item |-> Some(q[Len(q)])]

\* VecDeque::pop_front: the rest of the queue and the item, if any
pop_front(q) ==
    IF q = <<>> THEN [q |-> q, item |-> None]
    ELSE [q |-> Tail(q), item |-> Some(Head(q))]

\* an eviction step that drops the newest message
evict_newest_if_full(cb) ==
    IF Len(cb.buffer) >= cb.capacity
    THEN pop_back(cb.buffer)
    ELSE [q |-> cb.buffer, item |-> None]

\* an eviction step that tests len > capacity
evict_if_over(cb) ==
    IF Len(cb.buffer) > cb.capacity
    THEN pop_front(cb.buffer)
    ELSE [q |-> cb.buffer, item |-> None]

\* send_message's eviction step: the queue it leaves and the message it drops
evict_if_full(cb) ==
    IF Len(cb.buffer) >= cb.capacity
    THEN pop_front(cb.buffer)
    ELSE [q |-> cb.buffer, item |-> None]

\* a send_message that counts a write only when nothing was evicted
send_message_counting_admitted(cb, msg) ==
    [cb |-> [cb EXCEPT !.buffer = Append(evict_if_full(cb).q, msg),
                       !.write_count = IF evict_if_full(cb).item = None
                                       THEN cb.write_count + 1
                                       ELSE cb.write_count],
     result |-> "Ok"]

\* send_message: the buffer afterwards and the Result
send_message(cb, msg) ==
    [cb |-> [cb EXCEPT !.buffer = Append(evict_if_full(cb).q, msg),
                       !.write_count = cb.write_count + 1],
     result |-> "Ok"]

\* a receive_message that counts a read whether or not it found a message
receive_message_counting_calls(cb) ==
    LET popped == pop_front(cb.buffer)
    IN  [cb |-> [cb EXCEPT !.buffer = popped.q,
                           !.read_count = cb.read_count + 1],
         item |-> popped.item]

\* a receive_message that finds nothing when one message is left
receive_message_keeping_last(cb) ==
    LET popped == pop_front(cb.buffer)
    IN  IF Len(cb.buffer) > 1
        THEN [cb |-> [cb EXCEPT !.buffer = popped.q,
                                !.read_count = cb.read_count + 1],
              item |-> popped.item]
        ELSE [cb |-> cb, item |-> None]

\* receive_message: the buffer afterwards and the Option<Message>
receive_message(cb) ==
    LET popped == pop_front(cb.buffer)
    IN  IF popped.item # None
        THEN [cb |-> [cb EXCEPT !.buffer = popped.q,
                                !.read_count = cb.read_count + 1],
              item |-> popped.item]
        ELSE [cb |-> cb, item |-> None]

is_empty(cb) == cb.buffer = <<>>

\* an is_full that tests len > capacity
is_full_strict(cb) == Len(cb.buffer) > cb.capacity

is_full(cb) == Len(cb.buffer) >= cb.capacity

length(cb) == Len(cb.buffer)

----------------------------------------------------------------------------
(* CommunicationProtocol *)

\* u16::saturating_add
saturating_add(a, b) == IF a + b >= U16 THEN U16 - 1 ELSE a + b

\* u16::wrapping_add
wrapping_add(a, b) == (a + b) % U16

\* a constructor that starts the ids at 0
CommunicationProtocol_new_from_zero(buffer_capacity) ==
    [shared_buffer |-> CircularBuffer_new(buffer_capacity), next_message |-> 0]

CommunicationProtocol_new(buffer_capacity) ==
    [shared_buffer |-> CircularBuffer_new(buffer_capacity), next_message |-> 1]

\* the program state, as pre records it
ProgramState == [shared_buffer |-> shared_buffer, next_message |-> next_message]

mcu1_send(payload) ==
    LET msg        == Message_new(next_message, payload)
        message_id == next_message
        sent       == send_message(shared_buffer, msg)
    IN  /\ shared_buffer' = sent.cb
        /\ IF sent.result = "Ok"
           THEN /\ next_message' = wrapping_add(next_message, 1)
                /\ ret' = [op |-> "mcu1_send", tag |-> "Ok", val |-> message_id]
           ELSE /\ next_message' = next_message
                /\ ret' = [op |-> "mcu1_send", tag |-> "Err", val |-> sent.result]
        /\ pre' = ProgramState
        /\ n_send' = n_send + 1

mcu2_receive ==
    LET got == receive_message(shared_buffer)
    IN  /\ shared_buffer' = got.cb
        /\ next_message' = next_message
        /\ IF got.item # None
           THEN LET m == got.item[1]
                    valid_checksum == verify_checksum(m)
                IN  ret' = [op |-> "mcu2_receive", tag |-> "Some",
                            val |-> Some(<<m, valid_checksum>>)]
           ELSE ret' = [op |-> "mcu2_receive", tag |-> "None", val |-> None]
        /\ pre' = ProgramState
        /\ n_send' = n_send

get_buffer_status ==
    /\ ret' = [op |-> "get_buffer_status", tag |-> "Status",
               val |-> << length(shared_buffer),
                          is_empty(shared_buffer),
                          is_full(shared_buffer) >>]
    /\ UNCHANGED protoVars
    /\ pre' = ProgramState
    /\ n_send' = n_send

----------------------------------------------------------------------------
(* Spec: any capacity in 0..MaxCap, then any MaxOps calls, all logged *)

\* the log entry of the call that ret' describes
LogEntry(arg, dropped) ==
    [op |-> ret'.op, arg |-> arg, tag |-> ret'.tag, val |-> ret'.val,
     evicted |-> dropped]

MsgIdle ==
    /\ m_id = 0
    /\ m_payload = <<>>
    /\ message = None
    /\ verdict = None

InitProtocol(capacity) ==
    /\ shared_buffer = CommunicationProtocol_new(capacity).shared_buffer
    /\ next_message = CommunicationProtocol_new(capacity).next_message
    /\ pre = CommunicationProtocol_new(capacity)
    /\ ret = [op |-> "new", tag |-> "Self", val |-> capacity]
    /\ log = <<>>
    /\ n_send = 0

Init ==
    /\ \E capacity \in 0..MaxCap : InitProtocol(capacity)
    /\ MsgIdle

Send ==
    /\ Len(log) < MaxOps
    /\ \E payload \in SendPayloads :
          /\ mcu1_send(payload)
          /\ log' = Append(log, LogEntry(payload, evict_if_full(shared_buffer).item))
    /\ UNCHANGED msgVars

Receive ==
    /\ Len(log) < MaxOps
    /\ mcu2_receive
    /\ log' = Append(log, LogEntry(None, None))
    /\ UNCHANGED msgVars

Next == Send \/ Receive

Spec == Init /\ [][Next]_vars

----------------------------------------------------------------------------
(* SpecStatus: Spec with get_buffer_status called at any point; the log     *)
(* keeps the sends and receives                                             *)

Status ==
    /\ get_buffer_status
    /\ UNCHANGED log
    /\ UNCHANGED msgVars

NextStatus == Send \/ Receive \/ Status

SpecStatus == Init /\ [][NextStatus]_vars

----------------------------------------------------------------------------
(* SpecMain: main()'s protocol (capacity 5) and main()'s payloads, sent in  *)
(* main()'s order, with receives and status calls made at any point; every *)
(* call is logged.  main()'s own run is one behaviour of it.                *)

InitMain ==
    /\ InitProtocol(MainCapacity)
    /\ MsgIdle

MainSend ==
    /\ Len(log) < MaxMainOps
    /\ n_send < Len(MainPayloads)
    /\ mcu1_send(MainPayloads[n_send + 1])
    /\ log' = Append(log, LogEntry(MainPayloads[n_send + 1],
                                   evict_if_full(shared_buffer).item))
    /\ UNCHANGED msgVars

MainStatus ==
    /\ Len(log) < MaxMainOps
    /\ get_buffer_status
    /\ log' = Append(log, LogEntry(None, None))
    /\ UNCHANGED msgVars

MainReceive ==
    /\ Len(log) < MaxMainOps
    /\ mcu2_receive
    /\ log' = Append(log, LogEntry(None, None))
    /\ UNCHANGED msgVars

NextMain == MainSend \/ MainStatus \/ MainReceive

SpecMain == InitMain /\ [][NextMain]_vars

----------------------------------------------------------------------------
(* SpecDrain: up to MaxFill sends at any point, and the consumer loop of    *)
(* main(), while let Some(..) = mcu2_receive(): it calls mcu2_receive until *)
(* one call returns None, and is started again by a later send.  The loop   *)
(* keeps running while it has not seen None: weak fairness of DrainReceive. *)

DrainSend ==
    /\ n_send < MaxFill
    /\ \E payload \in DrainPayloads :
          /\ mcu1_send(payload)
          /\ log' = Append(log, LogEntry(payload, evict_if_full(shared_buffer).item))
    /\ UNCHANGED msgVars

DrainReceive ==
    /\ ~(ret.op = "mcu2_receive" /\ ret.tag = "None")
    /\ mcu2_receive
    /\ log' = Append(log, LogEntry(None, None))
    /\ UNCHANGED msgVars

NextDrain == DrainSend \/ DrainReceive

SpecDrain == Init /\ [][NextDrain]_vars /\ WF_vars(DrainReceive)

----------------------------------------------------------------------------
(* SpecWrap: a long run, past the wrap of next_message; calls not logged *)

InitWrap ==
    /\ \E capacity \in 0..WrapCap : InitProtocol(capacity)
    /\ MsgIdle

WrapSend ==
    /\ n_send < WrapSends
    /\ mcu1_send(<<>>)
    /\ UNCHANGED log
    /\ UNCHANGED msgVars

WrapReceive ==
    /\ shared_buffer.read_count < WrapReads
    /\ mcu2_receive
    /\ UNCHANGED log
    /\ UNCHANGED msgVars

NextWrap == WrapSend \/ WrapReceive

SpecWrap == InitWrap /\ [][NextWrap]_vars

----------------------------------------------------------------------------
(* SpecMsg: Message::new and verify_checksum on ids and payloads *)

RECURSIVE SeqsUpTo(_, _)
SeqsUpTo(S, n) ==
    IF n = 0 THEN { <<>> }
    ELSE LET shorter == SeqsUpTo(S, n - 1)
         IN  shorter \cup { Append(s, b) : s \in shorter, b \in S }

MsgPayloads == SeqsUpTo(ByteVals, MaxLen)

InitMsg ==
    /\ InitProtocol(1)
    /\ m_id \in IdVals
    /\ m_payload \in MsgPayloads
    /\ message = None
    /\ verdict = None

MsgNew ==
    /\ message = None
    /\ message' = Some(Message_new(m_id, m_payload))
    /\ UNCHANGED <<m_id, m_payload, verdict>>
    /\ UNCHANGED protoVars
    /\ UNCHANGED obsVars

MsgVerify ==
    /\ message # None
    /\ verdict = None
    /\ verdict' = Some(verify_checksum(message[1]))
    /\ UNCHANGED <<m_id, m_payload, message>>
    /\ UNCHANGED protoVars
    /\ UNCHANGED obsVars

NextMsg == MsgNew \/ MsgVerify

SpecMsg == InitMsg /\ [][NextMsg]_vars

----------------------------------------------------------------------------
(* What the log says *)

IsSend(e) == e.op = "mcu1_send"

IsReceive(e) == e.op = "mcu2_receive"

IsDelivery(e) == e.op = "mcu2_receive" /\ e.tag = "Some"

\* a message is told apart by its id and payload
Key(m) == <<m.id, m.payload>>

Sends == SelectSeq(log, IsSend)

Deliveries == SelectSeq(log, IsDelivery)

Evictions == SelectSeq(log, LAMBDA e : e.evicted # None)

SentKeys == [i \in 1..Len(Sends) |-> <<Sends[i].val, Sends[i].arg>>]

DeliveredKeys == [i \in 1..Len(Deliveries) |-> Key(Deliveries[i].val[1][1])]

EvictedKeys == [i \in 1..Len(Evictions) |-> Key(Evictions[i].evicted[1])]

BufferKeys(cb) == [i \in 1..Len(cb.buffer) |-> Key(cb.buffer[i])]

OpsOf(l) == [i \in 1..Len(l) |-> l[i].op]

\* the number of sends at the end of the log, since the last receive
RECURSIVE TrailingSends(_)
TrailingSends(l) ==
    IF l = <<>> THEN 0
    ELSE IF IsSend(l[Len(l)]) THEN 1 + TrailingSends(SubSeq(l, 1, Len(l) - 1))
    ELSE 0

LastK(q, k) == SubSeq(q, Len(q) - k + 1, Len(q))

\* r is s with some elements left out, the order kept
RECURSIVE IsSubseq(_, _)
IsSubseq(r, q) ==
    IF Len(r) = 0 THEN TRUE
    ELSE IF Len(q) = 0 THEN FALSE
    ELSE IF r[1] = q[1]
         THEN IsSubseq(SubSeq(r, 2, Len(r)), SubSeq(q, 2, Len(q)))
         ELSE IsSubseq(r, SubSeq(q, 2, Len(q)))

\* the last call's message and flag, when it was a receive that returned Some
RetMessage == ret.val[1][1]

RetFlag == ret.val[1][2]

----------------------------------------------------------------------------
(* Claims *)

\* C1: in every reachable state, for every capacity the constructor accepts,
\* the buffer holds at most capacity messages.
C1_LengthAtMostCapacity ==
    length(shared_buffer) <= shared_buffer.capacity

\* C2: construction with capacity 0 fails with an error, so no channel of
\* capacity 0 exists; with capacity >= 1 it returns an empty channel with
\* write_count = 0 and read_count = 0.
C2_ZeroCapacityRejected ==
    /\ shared_buffer.capacity = 0 => (ret.op = "new" /\ ret.tag = "Err")
    /\ (ret.op = "new" /\ ret.val >= 1) =>
          /\ ret.tag = "Self"
          /\ shared_buffer.capacity = ret.val
          /\ is_empty(shared_buffer)
          /\ shared_buffer.write_count = 0
          /\ shared_buffer.read_count = 0

\* C3: with capacity C >= 1, after N >= C sends with no receive in between the
\* buffer holds exactly the last C messages sent, in send order; the messages
\* evicted (the first N - C of a run of sends from construction) are never
\* delivered; with capacity 2, sends 1,2,3 and two receives deliver 2 then 3.
C3_LastCapacitySendsSurvive ==
    LET C == shared_buffer.capacity
        N == TrailingSends(log)
    IN  C >= 1 =>
          /\ N >= C =>
                /\ length(shared_buffer) = C
                /\ BufferKeys(shared_buffer) = LastK(SentKeys, C)
          /\ (N >= C /\ N = Len(log)) =>
                EvictedKeys = SubSeq(SentKeys, 1, N - C)
          /\ \A i \in 1..Len(EvictedKeys) : \A j \in 1..Len(DeliveredKeys) :
                EvictedKeys[i] # DeliveredKeys[j]
          /\ (C = 2 /\ OpsOf(log) = <<"mcu1_send", "mcu1_send", "mcu1_send",
                                      "mcu2_receive", "mcu2_receive">>) =>
                [i \in 1..2 |-> DeliveredKeys[i][1]] = <<2, 3>>

\* C3 witness: capacity 2, three sends, then two receives that returned messages
C3_OverwriteScenarioReached ==
    /\ shared_buffer.capacity = 2
    /\ OpsOf(log) = <<"mcu1_send", "mcu1_send", "mcu1_send",
                      "mcu2_receive", "mcu2_receive">>
    /\ Len(Deliveries) = 2
    /\ Len(Evictions) = 1

\* C4: messages are delivered in FIFO order: each receive that returns a
\* message returns the oldest one in the buffer; the messages delivered are
\* a subsequence of the messages sent, and none is delivered twice.
C4_FifoDelivery ==
    /\ IsSubseq(DeliveredKeys, SentKeys)
    /\ \A i \in 1..Len(DeliveredKeys) : \A j \in 1..Len(DeliveredKeys) :
          i # j => DeliveredKeys[i] # DeliveredKeys[j]
    /\ (ret.op = "mcu2_receive" /\ ret.tag = "Some") =>
          /\ pre.shared_buffer.buffer # <<>>
          /\ RetMessage = Head(pre.shared_buffer.buffer)

\* C4 witness: sends and receives interleaved, one message lost between two
\* deliveries
C4_InterleavedDeliveriesReached ==
    /\ Len(Deliveries) >= 2
    /\ Len(Evictions) >= 1
    /\ \E i \in 1..Len(log) : \E j \in 1..Len(log) :
          i < j /\ IsDelivery(log[i]) /\ IsSend(log[j])
    /\ ret.op = "mcu2_receive" /\ ret.tag = "Some"
    /\ Len(pre.shared_buffer.buffer) >= 2

\* C5: write_count is the number of send calls (evicted ones included),
\* read_count the number of receives that returned a message; an eviction
\* and a receive on an empty buffer leave read_count alone; neither counter
\* decreases.
C5_CountsAreCallTotals ==
    /\ shared_buffer.write_count = Len(Sends)
    /\ shared_buffer.write_count = n_send
    /\ shared_buffer.read_count = Len(Deliveries)
    /\ shared_buffer.write_count >= pre.shared_buffer.write_count
    /\ shared_buffer.read_count >= pre.shared_buffer.read_count
    /\ ret.op = "mcu1_send" =>
          /\ shared_buffer.read_count = pre.shared_buffer.read_count
          /\ shared_buffer.write_count = pre.shared_buffer.write_count + 1
    /\ (ret.op = "mcu2_receive" /\ ret.tag = "None") =>
          shared_buffer.read_count = pre.shared_buffer.read_count

\* C5 witness: an evicting send, after a delivery and an empty receive
C5_EvictionAndEmptyReceiveCounted ==
    /\ ret.op = "mcu1_send"
    /\ log[Len(log)].evicted # None
    /\ Len(Deliveries) >= 1
    /\ \E i \in 1..Len(log) : IsReceive(log[i]) /\ log[i].tag = "None"
    /\ shared_buffer.write_count >
          shared_buffer.read_count + length(shared_buffer)

\* C6: the k-th mcu1_send returns, and stamps on the message, the id
\* k mod 2^16: the first id is 1, each send advances next_message by one
\* whatever the buffer holds and whatever receives came between, and the id
\* after 65535 is 0.
C6_IdIsCallNumberModulo ==
    /\ next_message = (n_send + 1) % U16
    /\ n_send = 0 => next_message = 1
    /\ ret.op = "mcu1_send" =>
          /\ ret.tag = "Ok"
          /\ ret.val = n_send % U16
          /\ shared_buffer.buffer # <<>>
          /\ shared_buffer.buffer[Len(shared_buffer.buffer)].id = ret.val
          /\ next_message = (pre.next_message + 1) % U16
          /\ ret.val = U16 - 1 => next_message = 0
    /\ ret.op = "mcu2_receive" => next_message = pre.next_message

\* C6 witness: the 65536th send, with a receive before it, returned id 0
C6_WrappedToZero ==
    /\ ret.op = "mcu1_send"
    /\ n_send = U16
    /\ ret.val = 0
    /\ pre.next_message = 0
    /\ shared_buffer.read_count >= 1

\* C7: mcu1_send never returns an error; when the buffer is full it returns
\* Ok(id), evicts exactly one message, the oldest, and admits the new one as
\* the newest.
C7_SendSucceedsAndEvictsOneWhenFull ==
    ret.op = "mcu1_send" =>
       /\ ret.tag = "Ok"
       /\ shared_buffer.buffer # <<>>
       /\ shared_buffer.buffer[Len(shared_buffer.buffer)].id = ret.val
       /\ is_full(pre.shared_buffer) =>
             /\ pre.shared_buffer.buffer # <<>>
             /\ log[Len(log)].evicted = Some(Head(pre.shared_buffer.buffer))
             /\ length(shared_buffer) = length(pre.shared_buffer)
             /\ SubSeq(shared_buffer.buffer, 1, Len(shared_buffer.buffer) - 1)
                   = Tail(pre.shared_buffer.buffer)

\* C8: mcu2_receive on an empty buffer returns None and leaves buffer,
\* write_count, read_count and next_message as they were; it returns None
\* only when the buffer is empty.
C8_EmptyReceiveIsNoneAndChangesNothing ==
    ret.op = "mcu2_receive" =>
       /\ is_empty(pre.shared_buffer) <=> ret.tag = "None"
       /\ ret.tag = "None" =>
             /\ ret.val = None
             /\ shared_buffer = pre.shared_buffer
             /\ next_message = pre.next_message

\* C8 witness: a receive on a buffer that was filled and drained before
C8_EmptyReceiveAfterDrain ==
    /\ ret.op = "mcu2_receive"
    /\ ret.tag = "None"
    /\ shared_buffer.write_count >= 1
    /\ shared_buffer.read_count >= 1

\* C9: when mcu2_receive returns a message, the flag is whether the stored
\* checksum is the XOR of the payload, and the message has left the buffer:
\* the length is one less, read_count one more, whatever the flag.
C9_DeliveryIsFlaggedAndRemoved ==
    (ret.op = "mcu2_receive" /\ ret.tag = "Some") =>
       /\ RetFlag = (RetMessage.checksum = calculate_checksum(RetMessage.payload))
       /\ pre.shared_buffer.buffer # <<>>
       /\ RetMessage = Head(pre.shared_buffer.buffer)
       /\ shared_buffer.buffer = Tail(pre.shared_buffer.buffer)
       /\ length(shared_buffer) = length(pre.shared_buffer) - 1
       /\ shared_buffer.read_count = pre.shared_buffer.read_count + 1
       /\ \A i \in 1..Len(shared_buffer.buffer) :
             Key(shared_buffer.buffer[i]) # Key(RetMessage)

\* C9 witness: a message with a non-zero checksum was delivered from a buffer
\* that held more than one
C9_DeliveryReached ==
    /\ ret.op = "mcu2_receive"
    /\ ret.tag = "Some"
    /\ RetMessage.checksum # 0
    /\ length(shared_buffer) >= 1

\* C10: for every id and payload, the empty one included, verify_checksum on
\* Message::new(id, payload), the payload untouched, returns true.
C10_NewMessageVerifies ==
    /\ message # None =>
          /\ message[1].id = m_id
          /\ message[1].payload = m_payload
    /\ verdict # None => verdict = Some(TRUE)

\* C10 witness: a message of several bytes and a non-zero checksum verified
C10_VerifiedNonTrivialMessage ==
    /\ verdict = Some(TRUE)
    /\ message # None
    /\ Len(m_payload) >= 2
    /\ message[1].checksum # 0

----------------------------------------------------------------------------
(* SpecCorrupt: SpecMsg with one byte of the payload overwritten in place   *)
(* after Message::new, the stored checksum kept                             *)

MsgCorrupt ==
    /\ message # None
    /\ verdict = None
    /\ message[1].payload = m_payload
    /\ \E pos \in 1..Len(m_payload) :
          \E byte \in ByteVals \ { m_payload[pos] } :
             message' = Some([message[1] EXCEPT !.payload[pos] = byte])
    /\ UNCHANGED <<m_id, m_payload, verdict>>
    /\ UNCHANGED protoVars
    /\ UNCHANGED obsVars

NextCorrupt == MsgNew \/ MsgCorrupt \/ MsgVerify

SpecCorrupt == InitMsg /\ [][NextCorrupt]_vars

----------------------------------------------------------------------------
(* Claims about the checksum *)

\* bit k of byte b
Bit(b, k) == (b \div (2 ^ k)) % 2

\* the number of bytes of payload with bit k set
RECURSIVE BitCount(_, _)
BitCount(payload, k) ==
    IF payload = <<>> THEN 0
    ELSE Bit(Head(payload), k) + BitCount(Tail(payload), k)

\* the XOR of all bytes of payload, bit by bit: bit k is set when an odd
\* number of bytes have it set
RECURSIVE XorOfBytes(_, _)
XorOfBytes(payload, k) ==
    IF k = U8Bits THEN 0
    ELSE (BitCount(payload, k) % 2) * (2 ^ k) + XorOfBytes(payload, k + 1)

\* every reordering of payload
Permutations(payload) ==
    LET n == Len(payload)
        Bijections == { f \in [1..n -> 1..n] :
                          \A i \in 1..n : \A j \in 1..n : i # j => f[i] # f[j] }
    IN  { [i \in 1..n |-> payload[f[i]]] : f \in Bijections }

\* p and q have the same length and differ at exactly one position
DiffersInOneByte(p, q) ==
    /\ Len(p) = Len(q)
    /\ Cardinality({ i \in 1..Len(p) : p[i] # q[i] }) = 1

\* C11: calculate_checksum(P) is the XOR of all bytes of P, 0 for the empty
\* payload, and the same for every permutation of the bytes of P.
C11_ChecksumIsXorOfBytes ==
    message # None =>
       /\ message[1].checksum = XorOfBytes(m_payload, 0)
       /\ m_payload = <<>> => message[1].checksum = 0
       /\ \A p \in Permutations(m_payload) :
             calculate_checksum(p) = message[1].checksum

\* C11 witness: the checksum of three distinct bytes, which has six orders
C11_ThreeDistinctBytesSummed ==
    /\ message # None
    /\ m_payload = <<1, 6, 255>>
    /\ Cardinality(Permutations(m_payload)) = 6
    /\ message[1].checksum = 248

\* C12: for every message built by Message::new, replacing one byte of the
\* payload by a different value, the stored checksum kept, makes
\* verify_checksum return false.
C12_SingleByteCorruptionDetected ==
    (verdict # None /\ DiffersInOneByte(message[1].payload, m_payload)) =>
       /\ message[1].checksum = XorOfBytes(m_payload, 0)
       /\ verdict = Some(FALSE)

\* C12 witness: a corrupted byte in a payload of several bytes was detected
C12_CorruptionDetectedReached ==
    /\ verdict = Some(FALSE)
    /\ Len(m_payload) >= 2
    /\ DiffersInOneByte(message[1].payload, m_payload)

----------------------------------------------------------------------------
(* Claims about the channel's states *)

\* C13: get_buffer_status returns (length, is_empty, is_full) with is_empty
\* true iff length = 0 and is_full true iff length >= capacity, and leaves
\* buffer, write_count, read_count and next_message unchanged.
C13_StatusIsSnapshotWithoutEffect ==
    ret.op = "get_buffer_status" =>
       /\ ret.val[1] = Len(shared_buffer.buffer)
       /\ ret.val[2] <=> (ret.val[1] = 0)
       /\ ret.val[3] <=> (ret.val[1] >= shared_buffer.capacity)
       /\ shared_buffer = pre.shared_buffer
       /\ next_message = pre.next_message

\* C13 witness: the status of a full buffer of capacity 2, after a delivery
C13_StatusOfFullBufferReached ==
    /\ ret.op = "get_buffer_status"
    /\ ret.val = <<2, FALSE, TRUE>>
    /\ shared_buffer.capacity = 2
    /\ shared_buffer.read_count >= 1

\* the channel's state: empty, partial or full
IsEmptyState(cb) == length(cb) = 0

IsPartialState(cb) == 0 < length(cb) /\ length(cb) < cb.capacity

IsFullState(cb) == length(cb) >= cb.capacity

\* C14: a send on a full channel leaves it full with the same length (one
\* evicted, one admitted); a send on a channel that is not full adds one and
\* evicts nothing; a receive on a non-empty channel takes one, leaving it
\* partial or empty; in every reachable state send and receive are enabled.
C14_ChannelTransitions ==
    /\ ret.op = "mcu1_send" =>
          /\ IsFullState(pre.shared_buffer) =>
                /\ IsFullState(shared_buffer)
                /\ length(shared_buffer) = length(pre.shared_buffer)
                /\ log[Len(log)].evicted # None
          /\ ~IsFullState(pre.shared_buffer) =>
                /\ length(shared_buffer) = length(pre.shared_buffer) + 1
                /\ log[Len(log)].evicted = None
    /\ (ret.op = "mcu2_receive" /\ ~IsEmptyState(pre.shared_buffer)) =>
          /\ length(shared_buffer) = length(pre.shared_buffer) - 1
          /\ IsPartialState(shared_buffer) \/ IsEmptyState(shared_buffer)
    /\ ENABLED mcu1_send(<<>>)
    /\ ENABLED mcu2_receive

\* C16: in every reachable state the channel is in exactly one of the states
\* empty (length = 0), partial (0 < length < capacity) and full
\* (length >= capacity); is_empty and is_full are never both true.
C16_ExactlyOneChannelState ==
    /\ Cardinality({ s \in {"empty", "partial", "full"} :
                       \/ s = "empty" /\ IsEmptyState(shared_buffer)
                       \/ s = "partial" /\ IsPartialState(shared_buffer)
                       \/ s = "full" /\ IsFullState(shared_buffer) }) = 1
    /\ ~(is_empty(shared_buffer) /\ is_full(shared_buffer))

----------------------------------------------------------------------------
(* Claims about what the buffer holds *)

\* C17: every message in the buffer has checksum = XOR of its payload, and
\* every mcu2_receive that returns a message returns it with flag true.
C17_StoredMessagesAreValid ==
    /\ \A i \in 1..Len(shared_buffer.buffer) :
          shared_buffer.buffer[i].checksum =
             XorOfBytes(shared_buffer.buffer[i].payload, 0)
    /\ \A i \in 1..Len(Deliveries) : Deliveries[i].val[1][2] = TRUE
    /\ (ret.op = "mcu2_receive" /\ ret.tag = "Some") => RetFlag = TRUE

\* C17 witness: two deliveries, the last of a message with a non-zero
\* checksum, and such a message still queued
C17_ValidDeliveriesReached ==
    /\ Len(Deliveries) >= 2
    /\ ret.op = "mcu2_receive"
    /\ ret.tag = "Some"
    /\ RetFlag = TRUE
    /\ RetMessage.checksum # 0
    /\ \E i \in 1..Len(shared_buffer.buffer) :
          shared_buffer.buffer[i].checksum # 0

\* the sent messages that were neither delivered nor are still queued
LostKeys ==
    { SentKeys[i] : i \in 1..Len(SentKeys) }
       \ ({ DeliveredKeys[i] : i \in 1..Len(DeliveredKeys) }
            \cup { Key(shared_buffer.buffer[i]) :
                      i \in 1..Len(shared_buffer.buffer) })

\* C18: length = write_count - read_count - evictions so far; hence
\* length <= write_count - read_count and read_count <= write_count, and
\* write_count - read_count - length is the number of messages sent and
\* neither delivered nor still queued.
C18_LossAccounting ==
    LET wc  == shared_buffer.write_count
        rc  == shared_buffer.read_count
        len == length(shared_buffer)
    IN  /\ len = wc - rc - Len(Evictions)
        /\ len <= wc - rc
        /\ rc <= wc
        /\ wc - rc - len = Cardinality(LostKeys)

\* C18 witness: two messages lost, one delivered, one queued
C18_LossesReached ==
    /\ Len(Evictions) >= 2
    /\ shared_buffer.read_count >= 1
    /\ length(shared_buffer) >= 1
    /\ Cardinality(LostKeys) = Len(Evictions)

----------------------------------------------------------------------------
(* Claims about main()'s run *)

\* main()'s calls: three sends, the status, and receives until None
MainScript ==
    << "mcu1_send", "mcu1_send", "mcu1_send", "get_buffer_status",
       "mcu2_receive", "mcu2_receive", "mcu2_receive", "mcu2_receive" >>

\* the log is main()'s run, or the start of it
FollowsMainScript ==
    /\ Len(log) <= Len(MainScript)
    /\ \A i \in 1..Len(log) : log[i].op = MainScript[i]

\* C15: with capacity 5, sending [1,2,3], [4,5], [6] returns ids 1, 2, 3;
\* the status is then (3, false, false); three receives return
\* (1, [1,2,3], valid), (2, [4,5], valid), (3, [6], valid), and a fourth
\* returns None.
C15_EndToEndScenario ==
    FollowsMainScript =>
       \A i \in 1..Len(log) :
          /\ i \in 1..3 =>
                /\ log[i].arg = MainPayloads[i]
                /\ log[i].tag = "Ok"
                /\ log[i].val = i
          /\ i = 4 =>
                /\ log[i].tag = "Status"
                /\ log[i].val = <<3, FALSE, FALSE>>
          /\ i \in 5..7 =>
                /\ log[i].tag = "Some"
                /\ log[i].val[1][1].id = i - 4
                /\ log[i].val[1][1].payload = MainPayloads[i - 4]
                /\ log[i].val[1][2] = TRUE
          /\ i = 8 =>
                /\ log[i].tag = "None"
                /\ log[i].val = None

\* C15 witness: main()'s run to its end, the fourth receive having found
\* the buffer empty
C15_MainRunCompleted ==
    /\ shared_buffer.capacity = 5
    /\ OpsOf(log) = MainScript
    /\ ret.op = "mcu2_receive"
    /\ ret.tag = "None"
    /\ shared_buffer.write_count = 3
    /\ shared_buffer.read_count = 3

----------------------------------------------------------------------------
(* Claims about ids in the buffer and about draining it *)

\* C19: the ids in the buffer, oldest to newest, are consecutive modulo
\* 2^16; when the buffer is non-empty the newest id is next_message - 1
\* modulo 2^16; mcu2_receive never changes next_message.
C19_BufferedIdsConsecutive ==
    /\ \A i \in 1..(Len(shared_buffer.buffer) - 1) :
          shared_buffer.buffer[i + 1].id = (shared_buffer.buffer[i].id + 1) % U16
    /\ shared_buffer.buffer # <<>> =>
          shared_buffer.buffer[Len(shared_buffer.buffer)].id
             = (next_message + U16 - 1) % U16
    /\ ret.op = "mcu2_receive" => next_message = pre.next_message

\* C19 witness: after a delivery, the buffer holds ids 65535 and 0
C19_IdsAcrossWrapQueued ==
    /\ Len(shared_buffer.buffer) = 2
    /\ shared_buffer.buffer[1].id = U16 - 1
    /\ shared_buffer.buffer[2].id = 0
    /\ next_message = 1
    /\ shared_buffer.read_count >= 1

\* the consumer loop has ended: its last call found the buffer empty
Drained ==
    /\ ret.op = "mcu2_receive"
    /\ ret.tag = "None"
    /\ is_empty(shared_buffer)

\* C20: from any reachable state with buffer length L, if no further send
\* occurs, mcu2_receive returns a message exactly L times and then None: the
\* consumer loop ends with the buffer empty.  (owed = deliveries so far + L;
\* sends = the sends so far.)
C20_DrainTerminates ==
    \A owed \in 0..MaxFill : \A sends \in 0..MaxFill :
       (/\ shared_buffer.read_count + length(shared_buffer) = owed
        /\ n_send = sends)
          ~> (\/ n_send > sends
              \/ /\ n_send = sends
                 /\ Drained
                 /\ Len(Deliveries) = owed
                 /\ shared_buffer.read_count = owed)

\* C20 witness: the loop ended after two deliveries, one message having
\* been evicted before
C20_DrainedAfterDeliveries ==
    /\ Drained
    /\ shared_buffer.read_count >= 2
    /\ Len(Evictions) >= 1
    /\ log[Len(log) - 1].tag = "Some"

====
